---- MODULE Spec2Model ----
(***************************************************************************)
(* A model of the neurolov presale program (programs/neurolov/src/lib.rs). *)
(* One Presale account, the clock, the token wallets, and one action per   *)
(* instruction of the program; the transfers it asks the system and token  *)
(* programs for are recorded with the instruction's outcome.               *)
(* Every instruction runs as one atomic transaction: a failed instruction  *)
(* leaves the accounts as they were and only its error is observed.        *)
(***************************************************************************)
EXTENDS Integers, FiniteSets, Sequences, TLC

VARIABLES
    initialized,    \* the Presale account exists (created by initialize)
    presale,        \* the Presale account data (struct Presale)
    now,            \* Clock::get()?.unix_timestamp
    token_amount,   \* NLOV token accounts: account -> amount
    token_decimals, \* token_mint.decimals
    stable_decimals,\* stable_coin_mint.decimals
    overflow_checks,\* the build: TRUE when integer overflow checks are compiled in
    purchases,      \* number of purchases that succeeded (bounds the run)
    call,           \* the last instruction submitted, with its arguments
    result,         \* its outcome: "Ok" or the error it failed with
    event,          \* the event it emitted
    ret,            \* the value it returned
    transfer        \* the transfer it made by cross-program invocation

vars == <<initialized, presale, now, token_amount, token_decimals,
          stable_decimals, overflow_checks, purchases, call, result, event,
          ret, transfer>>

-----------------------------------------------------------------------------
(* Integers.  TLC's integers are 32 bits wide, so the model's u64 is the   *)
(* unsigned range 0 .. U64_MAX with U64_MAX = 2^31 - 1: the checked        *)
(* operations fail outside that range exactly as Rust's do outside 2^64-1. *)

U64_MAX == 2147483647

None == -1

checked_div(a, b) == IF b = 0 THEN None ELSE a \div b

checked_mul(a, b) == IF b = 0 \/ a <= U64_MAX \div b THEN a * b ELSE None

checked_add(a, b) == IF a <= U64_MAX - b THEN a + b ELSE None

unwrap_or(x, d) == IF x = None THEN d ELSE x

\* mutant: nothing is subtracted
saturating_sub_Whole(a, b) == a

saturating_sub(a, b) == IF a >= b THEN a - b ELSE 0

\* a + b modulo U64_MAX + 1
wrapping_add(a, b) == IF a <= U64_MAX - b THEN a + b ELSE a - (U64_MAX - b) - 1

\* 10 * x modulo U64_MAX + 1
wrapping_mul10(x) ==
    LET x2 == wrapping_add(x, x)
        x4 == wrapping_add(x2, x2)
        x8 == wrapping_add(x4, x4)
    IN wrapping_add(x8, x2)

RECURSIVE wrapping_pow10(_)
wrapping_pow10(d) == IF d = 0 THEN 1 ELSE wrapping_mul10(wrapping_pow10(d - 1))

RECURSIVE checked_pow10(_)
checked_pow10(d) ==
    IF d = 0 THEN 1
    ELSE LET r == checked_pow10(d - 1)
         IN IF r = None THEN None ELSE checked_mul(r, 10)

\* 10u64.pow(d): when 10^d does not fit, a build with overflow checks
\* panics (None) and a build without them wraps
pow10(d) ==
    IF checked_pow10(d) # None THEN checked_pow10(d)
    ELSE IF overflow_checks THEN None
    ELSE wrapping_pow10(d)

\* x.checked_mul(10u64.pow(d)).unwrap(): None when it panics
ToRaw(x, d) == IF pow10(d) = None THEN None ELSE checked_mul(x, pow10(d))

\* x / 10u64.pow(d): None when it panics (the overflow of the power, or a
\* power that wrapped to 0)
ToUserUnits(x, d) ==
    IF pow10(d) = None \/ pow10(d) = 0 THEN None ELSE x \div pow10(d)

SECONDS_PER_DAY == 86400

-----------------------------------------------------------------------------
(* Bounds of the model.                                                     *)

MaxDays == 1            \* the clock runs for MaxDays days
Genesis == 1700000000   \* the clock's first value
MaxPurchases == 2       \* successful purchases per run

Signers == {"admin", "buyer"}

\* <<usd_price_cents_per_nlov, sol_price_lamports_per_nlov>>
PriceChoices == {<<3, 2>>, <<250, 182000000>>, <<0, 0>>}
\* <<private_sale_duration_days, public_sale_duration_days>>
DayChoices == {<<0, 1>>, <<1, 0>>}
HardcapChoices == {3, 1000000}
\* <<token_mint.decimals, stable_coin_mint.decimals>>
DecimalChoices == {<<0, 6>>, <<6, 0>>}
PaymentTypes == {0, 1, 2}
LamportChoices == {3, 5, 1820000000, 2000000000}
StableAmountChoices == {0, 1, 3}
MintChoices == {10000000}    \* amounts minted to the presale wallet

USDC_ADDRESS == "USDC"
USDT_ADDRESS == "USDT"
StableMints == {USDC_ADDRESS, USDT_ADDRESS, "OTHER"}

\* NLOV token accounts a caller can pass as presale_wallet
Wallets == {"presale_wallet", "other_wallet"}
TokenAccounts == Wallets \cup {"liquidity_wallet"}
\* stable coin accounts a caller can pass as merchant_stable_coin_account
StableDestinations == {"merchant_stable_coin_account", "other_stable_coin_account"}
\* what the buyer holds when a purchase is submitted
BuyerLamports == 1820000005
BuyerStable == 1000000
OtherWalletAmount == 3

NoAccount == [admin |-> "none", presale_start |-> 0,
              usd_price_cents_per_nlov |-> 0, sol_price_lamports_per_nlov |-> 0,
              private_sale_duration |-> 0, public_sale_duration |-> 0,
              sale_stage |-> 0, total_sold |-> 0, hardcap_tokens |-> 0,
              pool_created |-> FALSE, presale_wallet |-> "none",
              merchant_wallet |-> "none"]

NoCall == [op |-> "none"]
NoEvent == [name |-> "none"]
NoTransfer == [program |-> "none"]

-----------------------------------------------------------------------------
(* The accounts an instruction can change, and its outcome.                 *)

Accounts == [presale |-> presale, token_amount |-> token_amount]

Succeed(a, ev, r, t) ==
    [result |-> "Ok", accounts |-> a, event |-> ev, ret |-> r, transfer |-> t]

\* An error aborts the transaction: nothing it did is kept, nothing is emitted.
\* mutant: a failed instruction leaves the pool flag set behind it
Reject_Partial(a, err) ==
    [result |-> err, accounts |-> [a EXCEPT !.presale.pool_created = TRUE],
     event |-> NoEvent, ret |-> None, transfer |-> NoTransfer]

Reject(a, err) ==
    [result |-> err, accounts |-> a, event |-> NoEvent, ret |-> None,
     transfer |-> NoTransfer]

Commit(c, o) ==
    /\ call' = c
    /\ result' = o.result
    /\ event' = o.event
    /\ ret' = o.ret
    /\ transfer' = o.transfer
    /\ presale' = o.accounts.presale
    /\ token_amount' = o.accounts.token_amount

-----------------------------------------------------------------------------
(* initialize *)

\* mutant: the record is created with the private sale already open
initialize_Started(a, usd_price_cents_per_nlov, sol_price_lamports_per_nlov, private_sale_duration_days, public_sale_duration_days, hardcap_tokens, admin, clock) ==
    Succeed([a EXCEPT !.presale =
                [admin |-> admin,
                 usd_price_cents_per_nlov |-> usd_price_cents_per_nlov,
                 sol_price_lamports_per_nlov |-> sol_price_lamports_per_nlov,
                 presale_start |-> clock,
                 private_sale_duration |-> private_sale_duration_days * SECONDS_PER_DAY,
                 public_sale_duration |-> public_sale_duration_days * SECONDS_PER_DAY,
                 sale_stage |-> 1,
                 total_sold |-> 0,
                 pool_created |-> FALSE,
                 hardcap_tokens |-> hardcap_tokens,
                 presale_wallet |-> "presale_wallet",
                 merchant_wallet |-> "merchant_wallet"]],
            NoEvent, None, NoTransfer)

initialize(a, usd_price_cents_per_nlov, sol_price_lamports_per_nlov, private_sale_duration_days, public_sale_duration_days, hardcap_tokens, admin, clock) ==
    Succeed([a EXCEPT !.presale =
                [admin |-> admin,
                 usd_price_cents_per_nlov |-> usd_price_cents_per_nlov,
                 sol_price_lamports_per_nlov |-> sol_price_lamports_per_nlov,
                 presale_start |-> clock,
                 private_sale_duration |-> private_sale_duration_days * SECONDS_PER_DAY,
                 public_sale_duration |-> public_sale_duration_days * SECONDS_PER_DAY,
                 sale_stage |-> 0,
                 total_sold |-> 0,
                 pool_created |-> FALSE,
                 hardcap_tokens |-> hardcap_tokens,
                 presale_wallet |-> "presale_wallet",
                 merchant_wallet |-> "merchant_wallet"]],
            NoEvent, None, NoTransfer)

Initialize(prices, days, hardcap) ==
    /\ call = NoCall
    /\ ~initialized
    /\ initialized' = TRUE
    /\ Commit([op |-> "initialize", signer |-> "admin",
               usd_price_cents_per_nlov |-> prices[1],
               sol_price_lamports_per_nlov |-> prices[2],
               private_sale_duration_days |-> days[1],
               public_sale_duration_days |-> days[2],
               hardcap_tokens |-> hardcap],
              initialize(Accounts, prices[1], prices[2], days[1], days[2],
                         hardcap, "admin", now))
    /\ UNCHANGED <<now, token_decimals, stable_decimals, overflow_checks, purchases>>

-----------------------------------------------------------------------------
(* set_stage *)

\* The account constraints of the admin instructions (has_one = admin and
\* seeds = [PRESALE_SEED, admin.key()]) are checked before the handler runs.
AdminConstraint(p, signer) == p.admin = signer

\* mutant: the private sale ends the whole sale
StageAfter_SkipPublic(sale_stage) ==
    CASE sale_stage = 0 -> 1
      [] sale_stage = 1 -> 3
      [] sale_stage = 2 -> 3

\* lib.rs 72-103: the stage each arm of the match moves to
StageAfter(sale_stage) ==
    CASE sale_stage = 0 -> 1
      [] sale_stage = 1 -> 2
      [] sale_stage = 2 -> 3

\* mutant: the private sale must be over for more than its duration
PrivateSaleOver_Strict(p, clock) ==
    clock > p.presale_start + p.private_sale_duration

\* lib.rs 81-84: the private sale has run for its duration
PrivateSaleOver(p, clock) ==
    clock >= p.presale_start + p.private_sale_duration

\* lib.rs 90-96: the public sale has run for its duration
PublicSaleOver(p, clock) ==
    clock >= p.presale_start + p.private_sale_duration + p.public_sale_duration

\* mutant: a sale that has ended is started again
\* mutant: the public sale starts its own count of the tokens sold
set_stage_Recount(a, signer, clock) ==
    LET p == a.presale IN
    IF ~AdminConstraint(p, signer) THEN Reject(a, "ConstraintSeeds")
    ELSE IF p.sale_stage = 0 THEN
        Succeed([a EXCEPT !.presale.presale_start = clock,
                          !.presale.sale_stage = StageAfter(0)],
                NoEvent, None, NoTransfer)
    ELSE IF p.sale_stage = 1 THEN
        IF ~PrivateSaleOver(p, clock)
        THEN Reject(a, "PrivateSaleNotOver")
        ELSE Succeed([a EXCEPT !.presale.sale_stage = StageAfter(1),
                               !.presale.total_sold = 0],
                     NoEvent, None, NoTransfer)
    ELSE IF p.sale_stage = 2 THEN
        IF ~PublicSaleOver(p, clock)
        THEN Reject(a, "PublicSaleNotOver")
        ELSE Succeed([a EXCEPT !.presale.sale_stage = StageAfter(2)],
                     NoEvent, None, NoTransfer)
    ELSE Reject(a, "SaleAlreadyEnded")

set_stage_Reopen(a, signer, clock) ==
    LET p == a.presale IN
    IF ~AdminConstraint(p, signer) THEN Reject(a, "ConstraintSeeds")
    ELSE IF p.sale_stage = 1 /\ ~PrivateSaleOver(p, clock)
    THEN Reject(a, "PrivateSaleNotOver")
    ELSE IF p.sale_stage = 2 /\ ~PublicSaleOver(p, clock)
    THEN Reject(a, "PublicSaleNotOver")
    ELSE Succeed([a EXCEPT !.presale.sale_stage =
                      IF p.sale_stage = 3 THEN 3 ELSE StageAfter(p.sale_stage),
                           !.presale.presale_start =
                      IF p.sale_stage \in {0, 3} THEN clock ELSE p.presale_start],
                 NoEvent, None, NoTransfer)

\* mutant: every transition restarts the sale clock
set_stage_Restart(a, signer, clock) ==
    LET p == a.presale IN
    IF ~AdminConstraint(p, signer) THEN Reject(a, "ConstraintSeeds")
    ELSE IF p.sale_stage >= 3 THEN Reject(a, "SaleAlreadyEnded")
    ELSE Succeed([a EXCEPT !.presale.presale_start = clock,
                           !.presale.sale_stage = StageAfter(p.sale_stage)],
                 NoEvent, None, NoTransfer)

set_stage(a, signer, clock) ==
    LET p == a.presale IN
    IF ~AdminConstraint(p, signer) THEN Reject(a, "ConstraintSeeds")
    ELSE IF ~(p.admin = signer) THEN Reject(a, "Unauthorized")
    ELSE IF p.sale_stage = 0 THEN
        Succeed([a EXCEPT !.presale.presale_start = clock,
                          !.presale.sale_stage = StageAfter(0)],
                NoEvent, None, NoTransfer)
    ELSE IF p.sale_stage = 1 THEN
        IF ~PrivateSaleOver(p, clock)
        THEN Reject(a, "PrivateSaleNotOver")
        ELSE Succeed([a EXCEPT !.presale.sale_stage = StageAfter(1)],
                     NoEvent, None, NoTransfer)
    ELSE IF p.sale_stage = 2 THEN
        IF ~PublicSaleOver(p, clock)
        THEN Reject(a, "PublicSaleNotOver")
        ELSE Succeed([a EXCEPT !.presale.sale_stage = StageAfter(2)],
                     NoEvent, None, NoTransfer)
    ELSE Reject(a, "SaleAlreadyEnded")

SetStage(signer) ==
    /\ call = NoCall
    /\ initialized
    /\ Commit([op |-> "set_stage", signer |-> signer],
              set_stage(Accounts, signer, now))
    /\ UNCHANGED <<initialized, now, token_decimals, stable_decimals, overflow_checks, purchases>>

-----------------------------------------------------------------------------
(* update_sale_period *)

\* mutant: the day counts are stored as they are
\* mutant: the durations can still be set once the sale has ended
update_sale_period_Late(a, signer, new_private_sale_duration_days, new_public_sale_duration_days) ==
    LET p == a.presale IN
    IF ~AdminConstraint(p, signer) THEN Reject(a, "ConstraintSeeds")
    ELSE Succeed([a EXCEPT
            !.presale.private_sale_duration =
                new_private_sale_duration_days * SECONDS_PER_DAY,
            !.presale.public_sale_duration =
                new_public_sale_duration_days * SECONDS_PER_DAY],
            NoEvent, None, NoTransfer)

update_sale_period_Days(a, signer, new_private_sale_duration_days, new_public_sale_duration_days) ==
    LET p == a.presale IN
    IF ~AdminConstraint(p, signer) THEN Reject(a, "ConstraintSeeds")
    ELSE IF ~(p.sale_stage < 3) THEN Reject(a, "SaleAlreadyEnded")
    ELSE Succeed([a EXCEPT
            !.presale.private_sale_duration = new_private_sale_duration_days,
            !.presale.public_sale_duration = new_public_sale_duration_days],
            NoEvent, None, NoTransfer)

update_sale_period(a, signer, new_private_sale_duration_days, new_public_sale_duration_days) ==
    LET p == a.presale IN
    IF ~AdminConstraint(p, signer) THEN Reject(a, "ConstraintSeeds")
    ELSE IF ~(p.admin = signer) THEN Reject(a, "Unauthorized")
    ELSE IF ~(p.sale_stage < 3) THEN Reject(a, "SaleAlreadyEnded")
    ELSE Succeed([a EXCEPT
            !.presale.private_sale_duration =
                new_private_sale_duration_days * SECONDS_PER_DAY,
            !.presale.public_sale_duration =
                new_public_sale_duration_days * SECONDS_PER_DAY],
            NoEvent, None, NoTransfer)

UpdateSalePeriod(signer, days) ==
    /\ call = NoCall
    /\ initialized
    /\ Commit([op |-> "update_sale_period", signer |-> signer,
               new_private_sale_duration_days |-> days[1],
               new_public_sale_duration_days |-> days[2]],
              update_sale_period(Accounts, signer, days[1], days[2]))
    /\ UNCHANGED <<initialized, now, token_decimals, stable_decimals, overflow_checks, purchases>>

-----------------------------------------------------------------------------
(* update_sale_price *)

\* mutant: the prices can be set before the sale starts
\* mutant: a price update also rewrites the hardcap
update_sale_price_Hardcap(a, signer, new_usd_price_cents, new_sol_price_lamports) ==
    LET p == a.presale IN
    IF ~AdminConstraint(p, signer) THEN Reject(a, "ConstraintSeeds")
    ELSE IF ~(p.sale_stage = 1 \/ p.sale_stage = 2)
    THEN Reject(a, "PresaleNotActive")
    ELSE Succeed([a EXCEPT
            !.presale.usd_price_cents_per_nlov = new_usd_price_cents,
            !.presale.sol_price_lamports_per_nlov = new_sol_price_lamports,
            !.presale.hardcap_tokens = new_usd_price_cents],
            [name |-> "UpdateSalePriceEvent", admin |-> signer,
             new_usd_price_cents |-> new_usd_price_cents,
             new_sol_price_lamports |-> new_sol_price_lamports,
             sale_stage |-> p.sale_stage],
            None, NoTransfer)

update_sale_price_Early(a, signer, new_usd_price_cents, new_sol_price_lamports) ==
    LET p == a.presale IN
    IF ~AdminConstraint(p, signer) THEN Reject(a, "ConstraintSeeds")
    ELSE IF p.sale_stage = 3 THEN Reject(a, "PresaleNotActive")
    ELSE Succeed([a EXCEPT
            !.presale.usd_price_cents_per_nlov = new_usd_price_cents,
            !.presale.sol_price_lamports_per_nlov = new_sol_price_lamports],
            [name |-> "UpdateSalePriceEvent", admin |-> signer,
             new_usd_price_cents |-> new_usd_price_cents,
             new_sol_price_lamports |-> new_sol_price_lamports,
             sale_stage |-> p.sale_stage],
            None, NoTransfer)

update_sale_price(a, signer, new_usd_price_cents, new_sol_price_lamports) ==
    LET p == a.presale IN
    IF ~AdminConstraint(p, signer) THEN Reject(a, "ConstraintSeeds")
    ELSE IF ~(p.admin = signer) THEN Reject(a, "Unauthorized")
    ELSE IF ~(p.sale_stage = 1 \/ p.sale_stage = 2)
    THEN Reject(a, "PresaleNotActive")
    ELSE Succeed([a EXCEPT
            !.presale.usd_price_cents_per_nlov = new_usd_price_cents,
            !.presale.sol_price_lamports_per_nlov = new_sol_price_lamports],
            [name |-> "UpdateSalePriceEvent", admin |-> signer,
             new_usd_price_cents |-> new_usd_price_cents,
             new_sol_price_lamports |-> new_sol_price_lamports,
             sale_stage |-> p.sale_stage],
            None, NoTransfer)

UpdateSalePrice(signer, prices) ==
    /\ call = NoCall
    /\ initialized
    /\ Commit([op |-> "update_sale_price", signer |-> signer,
               new_usd_price_cents |-> prices[1],
               new_sol_price_lamports |-> prices[2]],
              update_sale_price(Accounts, signer, prices[1], prices[2]))
    /\ UNCHANGED <<initialized, now, token_decimals, stable_decimals, overflow_checks, purchases>>

-----------------------------------------------------------------------------
(* buy_tokens *)

\* mutant: a sale that has ended still counts as active
SaleActive_AfterStart(sale_stage) == sale_stage >= 1

\* lib.rs 149-152, 270-273 and 321-324: the sale is in an active stage
SaleActive(sale_stage) == sale_stage = 1 \/ sale_stage = 2

\* mutant: the quotient is rounded up
TokensForLamports_RoundUp(lamports_sent, sol_price_lamports_per_nlov) ==
    IF sol_price_lamports_per_nlov = 0 THEN None
    ELSE (lamports_sent \div sol_price_lamports_per_nlov)
            + (IF lamports_sent % sol_price_lamports_per_nlov = 0 THEN 0 ELSE 1)

\* lib.rs 157-161: whole tokens bought, or the error of the price check
TokensForLamports(lamports_sent, sol_price_lamports_per_nlov) ==
    checked_div(lamports_sent, sol_price_lamports_per_nlov)

\* mutant: a purchase of no token is let through
MinimumPurchaseOk_Any(tokens_to_purchase_user_units) ==
    tokens_to_purchase_user_units >= 0

MinimumPurchaseOk(tokens_to_purchase_user_units) ==
    tokens_to_purchase_user_units >= 1

\* mutant: the hardcap is not enforced
\* mutant: each purchase is held against the hardcap on its own
HardcapOk_Alone(total_sold, tokens_to_purchase_raw, hardcap_tokens) ==
    tokens_to_purchase_raw <= hardcap_tokens

HardcapOk_Unchecked(total_sold, tokens_to_purchase_raw, hardcap_tokens) ==
    checked_add(total_sold, tokens_to_purchase_raw) # None

\* mutant: the hardcap itself cannot be sold
HardcapOk_Strict(total_sold, tokens_to_purchase_raw, hardcap_tokens) ==
    unwrap_or(checked_add(total_sold, tokens_to_purchase_raw), U64_MAX)
        < hardcap_tokens

\* lib.rs 169-177 and 342-350: the hardcap check
HardcapOk(total_sold, tokens_to_purchase_raw, hardcap_tokens) ==
    unwrap_or(checked_add(total_sold, tokens_to_purchase_raw), U64_MAX)
        <= hardcap_tokens

\* mutant: the tokens already sold are not set aside
\* mutant: the tokens sold and the tokens bought are added up, and a sum
\* that overflows counts as nothing
InventoryOk_Sum(available_presale_tokens_raw, tokens_currently_sold_raw, tokens_to_purchase_raw) ==
    unwrap_or(checked_add(tokens_currently_sold_raw, tokens_to_purchase_raw), 0)
        <= available_presale_tokens_raw

InventoryOk_Gross(available_presale_tokens_raw, tokens_currently_sold_raw, tokens_to_purchase_raw) ==
    available_presale_tokens_raw >= tokens_to_purchase_raw

\* lib.rs 179-187 and 352-360: the presale wallet holds the tokens
InventoryOk(available_presale_tokens_raw, tokens_currently_sold_raw, tokens_to_purchase_raw) ==
    saturating_sub(available_presale_tokens_raw, tokens_currently_sold_raw)
        >= tokens_to_purchase_raw

\* mutant: the transfer is taken to succeed whatever the payer holds
SystemTransfer_Unfunded(held, from, to, amount) ==
    [ok |-> TRUE,
     made |-> [program |-> "system", from |-> from, to |-> to,
               amount |-> amount]]

\* mutant: an odd lamport is kept back
SystemTransfer_Rounded(held, from, to, amount) ==
    IF held < amount THEN [ok |-> FALSE, made |-> NoTransfer]
    ELSE [ok |-> TRUE,
          made |-> [program |-> "system", from |-> from, to |-> to,
                    amount |-> amount - (amount % 2)]]

\* system_instruction::transfer: fails when the payer holds less
SystemTransfer(held, from, to, amount) ==
    IF held < amount THEN [ok |-> FALSE, made |-> NoTransfer]
    ELSE [ok |-> TRUE,
          made |-> [program |-> "system", from |-> from, to |-> to,
                    amount |-> amount]]

\* mutant: every payment type but 0 is an off-chain payment
Web2Payment_Otherwise(payment_type) == payment_type # 0

\* lib.rs 203-208 and 375-377: the payment was made off-chain
Web2Payment(payment_type) == payment_type = 1

\* mutant: the purchase is not recorded
RecordSale_Forgotten(total_sold, tokens_to_purchase_raw) == total_sold

\* lib.rs 213-217 and 382-386: total_sold after the purchase
RecordSale(total_sold, tokens_to_purchase_raw) ==
    checked_add(total_sold, tokens_to_purchase_raw)

buy_tokens(a, payment_type, lamports_sent, wallet, decimals) ==
    LET p == a.presale
        tokens_to_purchase_user_units ==
            TokensForLamports(lamports_sent, p.sol_price_lamports_per_nlov)
        tokens_to_purchase_raw ==
            ToRaw(tokens_to_purchase_user_units, decimals)
        paid == SystemTransfer(BuyerLamports, "buyer", p.merchant_wallet,
                               lamports_sent)
        total == RecordSale(p.total_sold, tokens_to_purchase_raw)
        done(made) ==
            IF total = None THEN Reject(a, "Panic")
            ELSE Succeed([a EXCEPT !.presale.total_sold = total],
                         [name |-> "BuyTokensEvent", buyer |-> "buyer",
                          tokens_purchased |-> tokens_to_purchase_user_units,
                          sol_spent |-> lamports_sent,
                          sol_price_lamports_per_nlov |-> p.sol_price_lamports_per_nlov,
                          payment_type |-> payment_type],
                         None, made)
    IN
    IF ~SaleActive(p.sale_stage) THEN Reject(a, "PresaleNotActive")
    ELSE IF tokens_to_purchase_user_units = None THEN Reject(a, "InvalidPrice")
    ELSE IF ~MinimumPurchaseOk(tokens_to_purchase_user_units)
    THEN Reject(a, "InvalidPrice")
    ELSE IF tokens_to_purchase_raw = None THEN Reject(a, "Panic")
    ELSE IF ~HardcapOk(p.total_sold, tokens_to_purchase_raw, p.hardcap_tokens)
    THEN Reject(a, "HardcapReached")
    ELSE IF ~InventoryOk(a.token_amount[wallet], p.total_sold, tokens_to_purchase_raw)
    THEN Reject(a, "InsufficientTokens")
    ELSE IF payment_type = 0 THEN
        IF ~paid.ok THEN Reject(a, "TransferFailed") ELSE done(paid.made)
    ELSE IF Web2Payment(payment_type) THEN done(NoTransfer)
    ELSE Reject(a, "InvalidPaymentType")

BuyTokens(payment_type, lamports_sent, wallet) ==
    /\ call = NoCall
    /\ initialized
    /\ purchases < MaxPurchases
    /\ Commit([op |-> "buy_tokens", signer |-> "buyer",
               payment_type |-> payment_type, lamports_sent |-> lamports_sent,
               presale_wallet |-> wallet],
              buy_tokens(Accounts, payment_type, lamports_sent, wallet,
                         token_decimals))
    /\ purchases' = IF result' = "Ok" THEN purchases + 1 ELSE purchases
    /\ UNCHANGED <<initialized, now, token_decimals, stable_decimals, overflow_checks>>

-----------------------------------------------------------------------------
(* check_presale_token_balance *)

\* mutant: the balance is returned in raw units
check_presale_token_balance_Raw(a, wallet, decimals) ==
    Succeed(a, NoEvent,
            saturating_sub(a.token_amount[wallet], a.presale.total_sold),
            NoTransfer)

check_presale_token_balance(a, wallet, decimals) ==
    LET remaining_tokens_raw ==
            saturating_sub(a.token_amount[wallet], a.presale.total_sold)
        remaining_tokens_user_units == ToUserUnits(remaining_tokens_raw, decimals)
    IN IF remaining_tokens_user_units = None THEN Reject(a, "Panic")
       ELSE Succeed(a, NoEvent, remaining_tokens_user_units, NoTransfer)

CheckPresaleTokenBalance(signer, wallet) ==
    /\ call = NoCall
    /\ initialized
    /\ Commit([op |-> "check_presale_token_balance", signer |-> signer,
               presale_wallet |-> wallet],
              check_presale_token_balance(Accounts, wallet, token_decimals))
    /\ UNCHANGED <<initialized, now, token_decimals, stable_decimals, overflow_checks, purchases>>

-----------------------------------------------------------------------------
(* buy_tokens_by_stable_coin *)

\* mutant: every mint is accepted
AcceptedStableCoin_Any(mint) == mint = mint

\* lib.rs 309-314: the allow-list of stable coins
AcceptedStableCoin(mint) == mint = USDC_ADDRESS \/ mint = USDT_ADDRESS

\* mutant: an amount of zero is let through
StableAmountOk_Any(stable_coin_amount_user_units) ==
    stable_coin_amount_user_units >= 0

\* lib.rs 316-319: at least one unit of the stable coin is paid
StableAmountOk(stable_coin_amount_user_units) ==
    stable_coin_amount_user_units >= 1

\* mutant: the price is taken to be in dollars, not cents
TokensForStable_Dollars(stable_coin_amount_user_units, usd_price_cents_per_nlov) ==
    [panic |-> FALSE,
     tokens |-> checked_div(stable_coin_amount_user_units,
                            usd_price_cents_per_nlov)]

\* lib.rs 330-336: whole tokens bought for a stable coin amount
TokensForStable(stable_coin_amount_user_units, usd_price_cents_per_nlov) ==
    LET stable_coin_amount_cents == checked_mul(stable_coin_amount_user_units, 100)
    IN IF stable_coin_amount_cents = None THEN [panic |-> TRUE, tokens |-> None]
       ELSE [panic |-> FALSE,
             tokens |-> checked_div(stable_coin_amount_cents,
                                    usd_price_cents_per_nlov)]

\* mutant: the authority of the source account is not checked
TokenTransfer_AnyAuthority(held, from, to, amount, authorized) ==
    IF held < amount THEN [ok |-> FALSE, made |-> NoTransfer]
    ELSE [ok |-> TRUE,
          made |-> [program |-> "token", from |-> from, to |-> to,
                    amount |-> amount]]

\* token::transfer: fails when the authority does not own the source
\* account or the source holds less than the amount
TokenTransfer(held, from, to, amount, authorized) ==
    IF ~authorized \/ held < amount THEN [ok |-> FALSE, made |-> NoTransfer]
    ELSE [ok |-> TRUE,
          made |-> [program |-> "token", from |-> from, to |-> to,
                    amount |-> amount]]

buy_tokens_by_stable_coin(a, payment_type, stable_coin_amount_user_units, mint, wallet, merchant_stable_coin_account, decimals, stable_coin_decimals) ==
    LET p == a.presale
        stable_coin_amount_raw ==
            ToRaw(stable_coin_amount_user_units, stable_coin_decimals)
        bought == TokensForStable(stable_coin_amount_user_units,
                                  p.usd_price_cents_per_nlov)
        tokens_to_purchase_user_units == bought.tokens
        tokens_to_purchase_raw ==
            ToRaw(tokens_to_purchase_user_units, decimals)
        paid == TokenTransfer(BuyerStable, "buyer_stable_coin_account",
                              merchant_stable_coin_account,
                              stable_coin_amount_raw, TRUE)
        total == RecordSale(p.total_sold, tokens_to_purchase_raw)
        done(made) ==
            IF total = None THEN Reject(a, "Panic")
            ELSE Succeed([a EXCEPT !.presale.total_sold = total],
                         [name |-> "BuyTokensByStableCoinEvent", buyer |-> "buyer",
                          tokens_purchased |-> tokens_to_purchase_user_units,
                          stable_coin_amount |-> stable_coin_amount_user_units,
                          payment_type |-> payment_type],
                         None, made)
    IN
    IF ~AcceptedStableCoin(mint) THEN Reject(a, "InvalidStableToken")
    ELSE IF ~StableAmountOk(stable_coin_amount_user_units)
    THEN Reject(a, "InvalidPrice")
    ELSE IF ~SaleActive(p.sale_stage) THEN Reject(a, "PresaleNotActive")
    ELSE IF stable_coin_amount_raw = None THEN Reject(a, "Panic")
    ELSE IF bought.panic THEN Reject(a, "Panic")
    ELSE IF tokens_to_purchase_user_units = None THEN Reject(a, "InvalidPrice")
    ELSE IF tokens_to_purchase_raw = None THEN Reject(a, "Panic")
    ELSE IF ~HardcapOk(p.total_sold, tokens_to_purchase_raw, p.hardcap_tokens)
    THEN Reject(a, "HardcapReached")
    ELSE IF ~InventoryOk(a.token_amount[wallet], p.total_sold, tokens_to_purchase_raw)
    THEN Reject(a, "InsufficientTokens")
    ELSE IF payment_type = 0 THEN
        IF ~paid.ok THEN Reject(a, "TransferFailed") ELSE done(paid.made)
    ELSE IF Web2Payment(payment_type) THEN done(NoTransfer)
    ELSE Reject(a, "InvalidPaymentType")

BuyTokensByStableCoin(payment_type, amount, mint, wallet, dest) ==
    /\ call = NoCall
    /\ initialized
    /\ purchases < MaxPurchases
    /\ Commit([op |-> "buy_tokens_by_stable_coin", signer |-> "buyer",
               payment_type |-> payment_type,
               stable_coin_amount_user_units |-> amount,
               stable_coin_mint |-> mint, presale_wallet |-> wallet,
               merchant_stable_coin_account |-> dest],
              buy_tokens_by_stable_coin(Accounts, payment_type, amount, mint,
                                        wallet, dest, token_decimals,
                                        stable_decimals))
    /\ purchases' = IF result' = "Ok" THEN purchases + 1 ELSE purchases
    /\ UNCHANGED <<initialized, now, token_decimals, stable_decimals, overflow_checks>>

-----------------------------------------------------------------------------
(* finalize_presale *)

\* The presale wallet created by initialize is owned by the Presale account
\* (token::authority = presale); the program signs for no other account.
OwnedByPresale(p, wallet) == wallet = p.presale_wallet

\* mutant: the transfer leaves the token accounts as they were
Moved_Nothing(bal, made) == bal

\* the token accounts after a transfer the token program made
Moved(bal, made) ==
    IF made = NoTransfer THEN bal
    ELSE [bal EXCEPT ![made.from] = bal[made.from] - made.amount,
                     ![made.to] = bal[made.to] + made.amount]

\* mutant: the stage is not checked
finalize_presale_AnyStage(a, signer, wallet, decimals) ==
    LET p == a.presale IN
    IF ~AdminConstraint(p, signer) THEN Reject(a, "ConstraintSeeds")
    ELSE IF p.pool_created THEN Reject(a, "LiquidityPoolAlreadyCreated")
    ELSE Succeed([a EXCEPT !.presale.pool_created = TRUE],
                 [name |-> "FinalizePresaleEvent", admin |-> signer,
                  unsold_presale_tokens |-> 0],
                 None, NoTransfer)

\* mutant: the pool_created flag is not checked
\* mutant: the unsold tokens are moved but the sale is not marked finalized
finalize_presale_NoFlag(a, signer, wallet, decimals) ==
    LET p == a.presale
        unsold_presale_tokens_raw ==
            saturating_sub(a.token_amount[wallet], p.total_sold)
        moved == TokenTransfer(a.token_amount[wallet], wallet, "liquidity_wallet",
                               unsold_presale_tokens_raw,
                               OwnedByPresale(p, wallet))
        done(made) ==
            Succeed([a EXCEPT !.token_amount = Moved(a.token_amount, made)],
                    [name |-> "FinalizePresaleEvent", admin |-> signer,
                     unsold_presale_tokens |->
                         ToUserUnits(unsold_presale_tokens_raw, decimals)],
                    None, made)
    IN
    IF ~AdminConstraint(p, signer) THEN Reject(a, "ConstraintSeeds")
    ELSE IF ~(p.sale_stage = 3) THEN Reject(a, "PresaleActive")
    ELSE IF p.pool_created THEN Reject(a, "LiquidityPoolAlreadyCreated")
    ELSE IF unsold_presale_tokens_raw > 0 THEN
        IF ~moved.ok THEN Reject(a, "TransferFailed") ELSE done(moved.made)
    ELSE done(NoTransfer)

finalize_presale_Again(a, signer, wallet, decimals) ==
    LET p == a.presale IN
    IF ~AdminConstraint(p, signer) THEN Reject(a, "ConstraintSeeds")
    ELSE IF ~(p.sale_stage = 3) THEN Reject(a, "PresaleActive")
    ELSE Succeed([a EXCEPT !.presale.pool_created = TRUE],
                 [name |-> "FinalizePresaleEvent", admin |-> signer,
                  unsold_presale_tokens |-> 0],
                 None, NoTransfer)

finalize_presale(a, signer, wallet, decimals) ==
    LET p == a.presale
        unsold_presale_tokens_raw ==
            saturating_sub(a.token_amount[wallet], p.total_sold)
        moved == TokenTransfer(a.token_amount[wallet], wallet, "liquidity_wallet",
                               unsold_presale_tokens_raw,
                               OwnedByPresale(p, wallet))
        done(made) ==
            IF ToUserUnits(unsold_presale_tokens_raw, decimals) = None
            THEN Reject(a, "Panic")
            ELSE
            Succeed([a EXCEPT !.presale.pool_created = TRUE,
                              !.token_amount = Moved(a.token_amount, made)],
                    [name |-> "FinalizePresaleEvent", admin |-> signer,
                     unsold_presale_tokens |->
                         ToUserUnits(unsold_presale_tokens_raw, decimals)],
                    None, made)
    IN
    IF ~AdminConstraint(p, signer) THEN Reject(a, "ConstraintSeeds")
    ELSE IF ~(p.admin = signer) THEN Reject(a, "Unauthorized")
    ELSE IF ~(p.sale_stage = 3) THEN Reject(a, "PresaleActive")
    ELSE IF p.pool_created THEN Reject(a, "LiquidityPoolAlreadyCreated")
    ELSE IF unsold_presale_tokens_raw > 0 THEN
        IF ~moved.ok THEN Reject(a, "TransferFailed") ELSE done(moved.made)
    ELSE done(NoTransfer)

FinalizePresale(signer, wallet) ==
    /\ call = NoCall
    /\ initialized
    /\ Commit([op |-> "finalize_presale", signer |-> signer,
               presale_wallet |-> wallet],
              finalize_presale(Accounts, signer, wallet, token_decimals))
    /\ UNCHANGED <<initialized, now, token_decimals, stable_decimals, overflow_checks, purchases>>

-----------------------------------------------------------------------------
(* The environment: time passes, tokens are minted to the presale wallet.  *)

Tick ==
    /\ call = NoCall
    /\ now + SECONDS_PER_DAY <= Genesis + MaxDays * SECONDS_PER_DAY
    /\ now' = now + SECONDS_PER_DAY
    /\ UNCHANGED <<initialized, presale, token_amount, token_decimals,
                   stable_decimals, overflow_checks, purchases, call, result, event, ret,
                   transfer>>

MintTo(amount) ==
    /\ call = NoCall
    /\ initialized
    /\ token_amount["presale_wallet"] = 0
    /\ token_amount' = [token_amount EXCEPT !["presale_wallet"] = amount]
    /\ UNCHANGED <<initialized, presale, now, token_decimals, stable_decimals, overflow_checks,
                   purchases, call, result, event, ret, transfer>>

\* The client reads the outcome of its transaction; the next one follows.
Observe ==
    /\ call # NoCall
    /\ call' = NoCall
    /\ result' = "Ok"
    /\ event' = NoEvent
    /\ ret' = None
    /\ transfer' = NoTransfer
    /\ UNCHANGED <<initialized, presale, now, token_amount, token_decimals,
                   stable_decimals, overflow_checks, purchases>>

-----------------------------------------------------------------------------

\* The builds to tell apart: with and without overflow checks they differ
\* only where a power of ten of the mints' decimals overflows.
Builds(decimals, stable_coin_decimals) ==
    IF checked_pow10(decimals) = None \/ checked_pow10(stable_coin_decimals) = None
    THEN BOOLEAN
    ELSE {TRUE}

Init ==
    /\ initialized = FALSE
    /\ presale = NoAccount
    /\ now = Genesis
    /\ token_amount = [w \in TokenAccounts |->
                          IF w = "other_wallet" THEN OtherWalletAmount ELSE 0]
    /\ \E d \in DecimalChoices : token_decimals = d[1] /\ stable_decimals = d[2]
    /\ overflow_checks \in Builds(token_decimals, stable_decimals)
    /\ purchases = 0
    /\ call = NoCall
    /\ result = "Ok"
    /\ event = NoEvent
    /\ ret = None
    /\ transfer = NoTransfer

Next ==
    \/ \E pr \in PriceChoices, d \in DayChoices, h \in HardcapChoices :
          Initialize(pr, d, h)
    \/ \E s \in Signers : SetStage(s)
    \/ \E s \in Signers, d \in DayChoices : UpdateSalePeriod(s, d)
    \/ \E s \in Signers, pr \in PriceChoices : UpdateSalePrice(s, pr)
    \/ \E pt \in PaymentTypes, l \in LamportChoices, w \in Wallets :
          BuyTokens(pt, l, w)
    \/ \E s \in Signers, w \in Wallets : CheckPresaleTokenBalance(s, w)
    \/ \E pt \in PaymentTypes, u \in StableAmountChoices, m \in StableMints,
          w \in Wallets, dest \in StableDestinations :
          BuyTokensByStableCoin(pt, u, m, w, dest)
    \/ \E s \in Signers, w \in Wallets : FinalizePresale(s, w)
    \/ Tick
    \/ \E m \in MintChoices : MintTo(m)
    \/ Observe

Spec == Init /\ [][Next]_vars

-----------------------------------------------------------------------------
(* The same program at the edge of its integers: a hardcap of U64_MAX, a   *)
(* presale wallet that holds U64_MAX, amounts whose products overflow, and *)
(* token mints (the purchase instructions accept any) whose decimals make  *)
(* 10^decimals overflow.                                                   *)

WideDecimalChoices == {<<6, 6>>, <<6, 0>>, <<10, 6>>}
WideHardcapChoices == {2000000000, U64_MAX}
WideLamportChoices == {2, 2000, 4000, 2000000000}
WideStableAmountChoices == {1, 3000, 30000000}

InitWide ==
    /\ initialized = FALSE
    /\ presale = NoAccount
    /\ now = Genesis
    /\ token_amount = [w \in TokenAccounts |->
                          IF w = "other_wallet" THEN OtherWalletAmount ELSE 0]
    /\ \E d \in WideDecimalChoices :
          token_decimals = d[1] /\ stable_decimals = d[2]
    /\ overflow_checks \in Builds(token_decimals, stable_decimals)
    /\ purchases = 0
    /\ call = NoCall
    /\ result = "Ok"
    /\ event = NoEvent
    /\ ret = None
    /\ transfer = NoTransfer

NextWide ==
    \/ \E h \in WideHardcapChoices : Initialize(<<3, 2>>, <<0, 1>>, h)
    \/ SetStage("admin")
    \/ \E l \in WideLamportChoices : BuyTokens(0, l, "presale_wallet")
    \/ \E u \in WideStableAmountChoices :
          BuyTokensByStableCoin(0, u, USDC_ADDRESS, "presale_wallet",
                                "merchant_stable_coin_account")
    \/ MintTo(U64_MAX)
    \/ Observe

SpecWide == InitWide /\ [][NextWide]_vars

-----------------------------------------------------------------------------
(* The life of a sale under fairness.  The clock is followed for as long   *)
(* as a gate of set_stage lies ahead of it, whatever instruction was last  *)
(* submitted; the admin submits set_stage, and finalize_presale with the   *)
(* presale wallet of the record, again and again, between the instructions *)
(* of everybody else.                                                      *)

TickLive ==
    /\ IF ~initialized \/ presale.sale_stage = 0
       THEN now < Genesis + MaxDays * SECONDS_PER_DAY
       ELSE /\ presale.sale_stage < 3
            /\ now < presale.presale_start + presale.private_sale_duration
                        + presale.public_sale_duration
    /\ now' = now + SECONDS_PER_DAY
    /\ UNCHANGED <<initialized, presale, token_amount, token_decimals,
                   stable_decimals, overflow_checks, purchases, call, result,
                   event, ret, transfer>>

NextLive ==
    \/ \E d \in DayChoices : Initialize(<<3, 2>>, d, 3)
    \/ \E s \in Signers : SetStage(s)
    \/ \E d \in DayChoices : UpdateSalePeriod("admin", d)
    \/ UpdateSalePrice("admin", <<3, 2>>)
    \/ BuyTokens(0, 3, "presale_wallet")
    \/ CheckPresaleTokenBalance("buyer", "presale_wallet")
    \/ BuyTokensByStableCoin(0, 1, USDC_ADDRESS, "presale_wallet",
                             "merchant_stable_coin_account")
    \/ \E w \in Wallets : FinalizePresale("admin", w)
    \/ TickLive
    \/ \E m \in MintChoices : MintTo(m)
    \/ Observe

Fairness ==
    /\ WF_vars(TickLive)
    /\ WF_vars(Observe)
    /\ SF_vars(SetStage("admin"))
    /\ SF_vars(FinalizePresale("admin", "presale_wallet"))

SpecLive == Init /\ [][NextLive]_vars /\ Fairness

-----------------------------------------------------------------------------
(* The claims.  A step that runs an instruction goes from a state with     *)
(* call = NoCall to one whose call, result, event and transfer describe    *)
(* the instruction; the unprimed presale is the account before it ran.     *)

PurchaseOps == {"buy_tokens", "buy_tokens_by_stable_coin"}

\* a failed instruction: the accounts are as before, nothing moved or emitted
Untouched ==
    /\ presale' = presale
    /\ token_amount' = token_amount
    /\ transfer' = NoTransfer
    /\ event' = NoEvent

\* C1: in every reachable state total_sold is at most hardcap_tokens.
C1_TotalSoldWithinHardcap == presale.total_sold <= presale.hardcap_tokens

C1_Witness ==
    /\ call.op \in PurchaseOps
    /\ result = "Ok"
    /\ event.tokens_purchased >= 1
    /\ presale.total_sold = presale.hardcap_tokens

\* C2: the stage changes only by set_stage, and only to the next stage.
C2_StageStepsForward ==
    [][presale'.sale_stage # presale.sale_stage =>
          /\ call'.op = "set_stage"
          /\ result' = "Ok"
          /\ presale'.sale_stage = presale.sale_stage + 1]_vars

C2_Witness ==
    /\ call.op = "set_stage"
    /\ result = "Ok"
    /\ presale.sale_stage = 3

\* C3: a successful purchase with lamports credits floor(A / P) whole tokens
\* and adds exactly floor(A / P) * 10^decimals to total_sold.
C3_NativeFloor ==
    [][(call'.op = "buy_tokens" /\ result' = "Ok") =>
          /\ presale.sol_price_lamports_per_nlov > 0
          /\ event'.tokens_purchased =
                call'.lamports_sent \div presale.sol_price_lamports_per_nlov
          /\ presale'.total_sold = presale.total_sold
                + (call'.lamports_sent \div presale.sol_price_lamports_per_nlov)
                    * pow10(token_decimals)]_vars

C3_Witness ==
    /\ call.op = "buy_tokens"
    /\ result = "Ok"
    /\ presale.sol_price_lamports_per_nlov > 0
    /\ call.lamports_sent % presale.sol_price_lamports_per_nlov # 0
    /\ presale.total_sold > event.tokens_purchased * pow10(token_decimals)

\* C4: with price 182_000_000 lamports and a hardcap of 1_000_000 given to
\* initialize, the first purchase of the private sale with 1_820_000_000
\* lamports succeeds, credits 10 tokens and leaves total_sold = 10 * 10^d,
\* when the wallet holds the tokens and the payment goes through.
C4_ScenarioAsClaimed ==
    [][(/\ call'.op = "buy_tokens"
        /\ call'.lamports_sent = 1820000000
        /\ call'.payment_type \in {0, 1}
        /\ presale.sol_price_lamports_per_nlov = 182000000
        /\ presale.hardcap_tokens = 1000000
        /\ presale.sale_stage = 1
        /\ presale.total_sold = 0
        /\ token_amount[call'.presale_wallet] >= 10 * pow10(token_decimals)) =>
          /\ result' = "Ok"
          /\ event'.tokens_purchased = 10
          /\ presale'.total_sold = 10 * pow10(token_decimals)]_vars

\* C5: in an active stage a purchase with lamports fails with InvalidPrice
\* and records nothing when the price is zero or the payment is below it,
\* whatever the payment type.
C5_NativeInvalidPrice ==
    [][(/\ call'.op = "buy_tokens"
        /\ presale.sale_stage \in {1, 2}
        /\ \/ presale.sol_price_lamports_per_nlov = 0
           \/ call'.lamports_sent < presale.sol_price_lamports_per_nlov) =>
          /\ result' = "InvalidPrice"
          /\ Untouched]_vars

C5_Witness ==
    /\ call.op = "buy_tokens"
    /\ result = "InvalidPrice"
    /\ presale.sale_stage \in {1, 2}
    /\ presale.sol_price_lamports_per_nlov > 0
    /\ call.lamports_sent < presale.sol_price_lamports_per_nlov
    /\ call.lamports_sent > 0

\* C6: a successful purchase of U units of a stable coin at price C credits
\* floor(U * 100 / C) whole tokens, whatever the coin's decimals, and adds
\* exactly that many times 10^decimals to total_sold.
C6_StableFloor ==
    [][(call'.op = "buy_tokens_by_stable_coin" /\ result' = "Ok") =>
          /\ presale.usd_price_cents_per_nlov > 0
          /\ event'.tokens_purchased =
                (call'.stable_coin_amount_user_units * 100)
                    \div presale.usd_price_cents_per_nlov
          /\ presale'.total_sold = presale.total_sold
                + ((call'.stable_coin_amount_user_units * 100)
                      \div presale.usd_price_cents_per_nlov)
                    * pow10(token_decimals)]_vars

C6_Witness ==
    /\ call.op = "buy_tokens_by_stable_coin"
    /\ result = "Ok"
    /\ event.tokens_purchased = 33
    /\ transfer.program = "token"
    /\ transfer.amount = call.stable_coin_amount_user_units * pow10(stable_decimals)
    /\ stable_decimals = 6

\* C7: every successful purchase increases total_sold; a stable coin
\* purchase whose quotient floor(U * 100 / price) is zero, or whose price
\* is zero, fails with InvalidPrice and moves no payment.
C7_EveryPurchaseCredits ==
    [][/\ (call'.op \in PurchaseOps /\ result' = "Ok") =>
              presale'.total_sold > presale.total_sold
       /\ (/\ call'.op = "buy_tokens_by_stable_coin"
           /\ call'.stable_coin_mint \in {USDC_ADDRESS, USDT_ADDRESS}
           /\ call'.stable_coin_amount_user_units >= 1
           /\ presale.sale_stage \in {1, 2}
           /\ \/ presale.usd_price_cents_per_nlov = 0
              \/ (call'.stable_coin_amount_user_units * 100)
                    \div presale.usd_price_cents_per_nlov = 0) =>
              /\ result' = "InvalidPrice"
              /\ transfer' = NoTransfer]_vars

\* The purchase a call asks for, once the stage, price and amount checks
\* are passed: the raw tokens it buys (None when they do not fit) and
\* whether its payment goes through.
TokensRaw(c, p) ==
    IF c.op = "buy_tokens"
    THEN checked_mul(c.lamports_sent \div p.sol_price_lamports_per_nlov,
                     pow10(token_decimals))
    ELSE checked_mul((c.stable_coin_amount_user_units * 100)
                        \div p.usd_price_cents_per_nlov,
                     pow10(token_decimals))

PassesEarlierChecks(c, p) ==
    /\ c.op \in PurchaseOps
    /\ p.sale_stage \in {1, 2}
    /\ IF c.op = "buy_tokens"
       THEN /\ p.sol_price_lamports_per_nlov > 0
            /\ c.lamports_sent >= p.sol_price_lamports_per_nlov
       ELSE /\ c.stable_coin_mint \in {USDC_ADDRESS, USDT_ADDRESS}
            /\ c.stable_coin_amount_user_units >= 1
            /\ p.usd_price_cents_per_nlov > 0
    /\ TokensRaw(c, p) # None

PaymentGoesThrough(c) ==
    /\ c.payment_type \in {0, 1}
    /\ c.payment_type = 0 =>
          IF c.op = "buy_tokens"
          THEN c.lamports_sent <= BuyerLamports
          ELSE c.stable_coin_amount_user_units * pow10(stable_decimals)
                  <= BuyerStable

\* C8: with enough tokens in the wallet and a payment that goes through, a
\* purchase that brings total_sold exactly to the hardcap succeeds, and one
\* that would bring it above fails with HardcapReached, total_sold unchanged.
C8_HardcapBoundary ==
    [][(/\ PassesEarlierChecks(call', presale)
        /\ PaymentGoesThrough(call')
        /\ token_amount[call'.presale_wallet] >= presale.total_sold
        /\ token_amount[call'.presale_wallet] - presale.total_sold
              >= TokensRaw(call', presale)) =>
          /\ TokensRaw(call', presale)
                = presale.hardcap_tokens - presale.total_sold =>
                /\ result' = "Ok"
                /\ presale'.total_sold = presale.hardcap_tokens
          /\ TokensRaw(call', presale)
                > presale.hardcap_tokens - presale.total_sold =>
                /\ result' = "HardcapReached"
                /\ Untouched]_vars

C8_Witness ==
    /\ call.op \in PurchaseOps
    /\ result = "Ok"
    /\ presale.total_sold = presale.hardcap_tokens
    /\ event.tokens_purchased >= 1
    /\ event.tokens_purchased * pow10(token_decimals) < presale.total_sold

\* C9: outside the active stages a purchase with lamports fails with
\* PresaleNotActive for every amount, price and payment type, makes no
\* transfer and leaves the account unchanged.
C9_NativeNotActive ==
    [][(call'.op = "buy_tokens" /\ presale.sale_stage \in {0, 3}) =>
          /\ result' = "PresaleNotActive"
          /\ Untouched]_vars

C9_Witness ==
    /\ call.op = "buy_tokens"
    /\ result = "PresaleNotActive"
    /\ presale.sale_stage = 3
    /\ presale.sol_price_lamports_per_nlov = 0
    /\ call.payment_type = 2

\* C10 as claimed: outside the active stages a purchase with an accepted
\* stable coin fails with PresaleNotActive for every amount, zero included.
C10_StableNotActiveAnyAmount ==
    [][(/\ call'.op = "buy_tokens_by_stable_coin"
        /\ call'.stable_coin_mint \in {USDC_ADDRESS, USDT_ADDRESS}
        /\ presale.sale_stage \in {0, 3}) =>
          /\ result' = "PresaleNotActive"
          /\ Untouched]_vars

\* C10 as amended: outside the active stages a purchase with an accepted
\* stable coin fails with PresaleNotActive for every amount of at least 1
\* and with InvalidPrice for the amount 0 (the amount is checked before the
\* stage); either way the account is unchanged.
C10_StableNotActive ==
    [][(/\ call'.op = "buy_tokens_by_stable_coin"
        /\ call'.stable_coin_mint \in {USDC_ADDRESS, USDT_ADDRESS}
        /\ presale.sale_stage \in {0, 3}) =>
          /\ result' = IF call'.stable_coin_amount_user_units >= 1
                       THEN "PresaleNotActive" ELSE "InvalidPrice"
          /\ Untouched]_vars

C10_Witness ==
    /\ call.op = "buy_tokens_by_stable_coin"
    /\ call.stable_coin_mint = USDT_ADDRESS
    /\ call.stable_coin_amount_user_units = 0
    /\ presale.sale_stage = 3
    /\ result = "InvalidPrice"

\* C11: a stable coin purchase whose mint is neither USDC nor USDT fails
\* with InvalidStableToken in every stage, for every amount and payment
\* type, with no transfer and nothing changed.
C11_StableMintAllowList ==
    [][(/\ call'.op = "buy_tokens_by_stable_coin"
        /\ call'.stable_coin_mint \notin {USDC_ADDRESS, USDT_ADDRESS}) =>
          /\ result' = "InvalidStableToken"
          /\ Untouched]_vars

C11_Witness ==
    /\ call.op = "buy_tokens_by_stable_coin"
    /\ call.stable_coin_mint \notin {USDC_ADDRESS, USDT_ADDRESS}
    /\ result = "InvalidStableToken"
    /\ call.stable_coin_amount_user_units = 0
    /\ call.payment_type = 2
    /\ presale.sale_stage = 3

\* The checks that follow the price checks of a purchase: the hardcap, and
\* the tokens of the instruction's presale wallet account not yet sold.
PassesHardcapCheck(c, p) ==
    /\ PassesEarlierChecks(c, p)
    /\ TokensRaw(c, p) <= p.hardcap_tokens - p.total_sold

Unreserved(c, p) ==
    IF token_amount[c.presale_wallet] >= p.total_sold
    THEN token_amount[c.presale_wallet] - p.total_sold ELSE 0

\* C12: a purchase on either rail that passes the hardcap check fails with
\* InsufficientTokens, nothing recorded and no payment moved, when
\* max(balance - total_sold, 0) < tokens_raw for the presale wallet account
\* of the instruction, and does not fail with it otherwise.
C12_InventoryCheck ==
    [][PassesHardcapCheck(call', presale) =>
          IF Unreserved(call', presale) < TokensRaw(call', presale)
          THEN result' = "InsufficientTokens" /\ Untouched
          ELSE result' # "InsufficientTokens"]_vars

C12_Witness ==
    /\ call.op \in PurchaseOps
    /\ result = "InsufficientTokens"
    /\ presale.total_sold > 0
    /\ token_amount[call.presale_wallet] > presale.total_sold

\* C13: no purchase succeeds unless the presale wallet recorded in the
\* Presale account by initialize holds at least total_sold + tokens_raw,
\* whatever wallet account the instruction is given.
C13_RecordedWalletBacksSales ==
    [][(call'.op \in PurchaseOps /\ result' = "Ok") =>
          token_amount[presale.presale_wallet] >= presale'.total_sold]_vars

PassesInventoryCheck(c, p) ==
    /\ PassesHardcapCheck(c, p)
    /\ Unreserved(c, p) >= TokensRaw(c, p)

\* C14: with payment type 0 on either rail the payment is transferred only
\* after every check has passed, and when the transfer fails the purchase
\* fails with that failure, total_sold is unchanged and no event is emitted.
C14_TransferBeforeRecording ==
    [][/\ (call'.op \in PurchaseOps /\ transfer' # NoTransfer) =>
              /\ PassesInventoryCheck(call', presale)
              /\ call'.payment_type = 0
              /\ result' = "Ok"
       /\ (/\ PassesInventoryCheck(call', presale)
           /\ call'.payment_type = 0
           /\ ~PaymentGoesThrough(call')) =>
              /\ result' = "TransferFailed"
              /\ Untouched]_vars

C14_Witness ==
    /\ call.op = "buy_tokens_by_stable_coin"
    /\ call.payment_type = 0
    /\ result = "TransferFailed"
    /\ event = NoEvent
    /\ presale.total_sold > 0

\* C15: with payment type 1 on either rail a purchase that passes the
\* stage, price, hardcap and inventory checks makes no transfer at all and
\* still adds tokens_raw to total_sold.
C15_Web2PaymentRecordsOnly ==
    [][(PassesInventoryCheck(call', presale) /\ call'.payment_type = 1) =>
          /\ result' = "Ok"
          /\ transfer' = NoTransfer
          /\ token_amount' = token_amount
          /\ presale'.total_sold
                = presale.total_sold + TokensRaw(call', presale)]_vars

C15_Witness ==
    /\ call.op \in PurchaseOps
    /\ call.payment_type = 1
    /\ result = "Ok"
    /\ transfer = NoTransfer
    /\ event.tokens_purchased >= 1
    /\ presale.total_sold >= pow10(token_decimals)

\* C16: a successful purchase with lamports and payment type 0 moves
\* exactly lamports_sent, the remainder that buys no token included, from
\* the buyer to the merchant wallet recorded in the Presale account, in
\* the one transfer it makes; nothing is refunded.
C16_FullAmountToMerchant ==
    [][(/\ call'.op = "buy_tokens"
        /\ call'.payment_type = 0
        /\ result' = "Ok") =>
          /\ transfer' = [program |-> "system", from |-> call'.signer,
                          to |-> presale.merchant_wallet,
                          amount |-> call'.lamports_sent]
          /\ token_amount' = token_amount]_vars

C16_Witness ==
    /\ call.op = "buy_tokens"
    /\ call.payment_type = 0
    /\ result = "Ok"
    /\ call.lamports_sent % presale.sol_price_lamports_per_nlov # 0
    /\ transfer.amount = call.lamports_sent
    /\ transfer.to = presale.merchant_wallet

\* C17: a successful stable coin purchase of U units with payment type 0
\* moves exactly U * 10^stable_decimals raw units from the buyer's stable
\* coin account to the merchant's stable coin account, never to an account
\* the buyer chose.
C17_StablePaymentToMerchant ==
    [][(/\ call'.op = "buy_tokens_by_stable_coin"
        /\ call'.payment_type = 0
        /\ result' = "Ok") =>
          transfer' = [program |-> "token",
                       from |-> "buyer_stable_coin_account",
                       to |-> "merchant_stable_coin_account",
                       amount |-> call'.stable_coin_amount_user_units
                                     * pow10(stable_decimals)]]_vars

\* C18: a purchase on either rail whose payment type is neither 0 nor 1 and
\* which passes the stage, price, hardcap and inventory checks fails with
\* InvalidPaymentType, makes no transfer and leaves total_sold unchanged.
C18_UnknownPaymentType ==
    [][(/\ PassesInventoryCheck(call', presale)
        /\ call'.payment_type \notin {0, 1}) =>
          /\ result' = "InvalidPaymentType"
          /\ Untouched]_vars

C18_Witness ==
    /\ call.op \in PurchaseOps
    /\ call.payment_type = 2
    /\ result = "InvalidPaymentType"
    /\ presale.total_sold > 0

AdminOps ==
    {"set_stage", "update_sale_price", "update_sale_period", "finalize_presale"}

\* C19: set_stage, update_sale_price, update_sale_period and
\* finalize_presale called by anyone but the recorded admin fail with
\* Unauthorized in every stage and for every argument, and the Presale
\* account is unchanged.
C19_NonAdminUnauthorized ==
    [][(call'.op \in AdminOps /\ call'.signer # presale.admin) =>
          /\ result' = "Unauthorized"
          /\ presale' = presale]_vars

\* C20: set_stage by the admin in stage 0 succeeds at any time, moves the
\* stage to 1 and sets presale_start to the current time; once the account
\* is initialized nothing else changes presale_start.
C20_StartSetByFirstTransition ==
    [][/\ (/\ call'.op = "set_stage"
           /\ call'.signer = presale.admin
           /\ presale.sale_stage = 0) =>
              /\ result' = "Ok"
              /\ presale'.sale_stage = 1
              /\ presale'.presale_start = now
       /\ (initialized /\ presale'.presale_start # presale.presale_start) =>
              /\ call'.op = "set_stage"
              /\ presale.sale_stage = 0
              /\ presale'.sale_stage = 1]_vars

C20_Witness ==
    /\ call.op = "set_stage"
    /\ result = "Ok"
    /\ presale.sale_stage = 1
    /\ presale.presale_start = now
    /\ now = Genesis + SECONDS_PER_DAY

\* C21: set_stage by the admin, with the durations stored when it is called:
\* in stage 1 it succeeds if now >= presale_start + private_sale_duration
\* and fails with PrivateSaleNotOver otherwise; in stage 2 it succeeds if
\* now >= presale_start + private_sale_duration + public_sale_duration and
\* fails with PublicSaleNotOver otherwise; a failed call changes nothing and
\* equality succeeds.
C21_StageTimingGates ==
    [][(call'.op = "set_stage" /\ call'.signer = presale.admin) =>
          /\ presale.sale_stage = 1 =>
                IF now >= presale.presale_start + presale.private_sale_duration
                THEN /\ result' = "Ok"
                     /\ presale' = [presale EXCEPT !.sale_stage = 2]
                ELSE /\ result' = "PrivateSaleNotOver"
                     /\ Untouched
          /\ presale.sale_stage = 2 =>
                IF now >= presale.presale_start + presale.private_sale_duration
                              + presale.public_sale_duration
                THEN /\ result' = "Ok"
                     /\ presale' = [presale EXCEPT !.sale_stage = 3]
                ELSE /\ result' = "PublicSaleNotOver"
                     /\ Untouched]_vars

C21_Witness ==
    /\ call.op = "set_stage"
    /\ result = "Ok"
    /\ presale.sale_stage = 2
    /\ presale.private_sale_duration > 0
    /\ now = presale.presale_start + presale.private_sale_duration

\* C22: set_stage by the admin in stage 3 fails with SaleAlreadyEnded at
\* every time and changes nothing; no step leaves stage 3.
C22_EndedIsTerminal ==
    [][/\ (/\ call'.op = "set_stage"
           /\ call'.signer = presale.admin
           /\ presale.sale_stage = 3) =>
              /\ result' = "SaleAlreadyEnded"
              /\ Untouched
       /\ presale.sale_stage = 3 => presale'.sale_stage = 3]_vars

C22_Witness ==
    /\ call.op = "set_stage"
    /\ call.signer = presale.admin
    /\ result = "SaleAlreadyEnded"
    /\ presale.sale_stage = 3

\* C23: update_sale_price by the admin succeeds exactly in stages 1 and 2,
\* where both prices are replaced by the values given and no other field
\* changes; in stages 0 and 3 it fails with PresaleNotActive and changes
\* nothing.
C23_PriceUpdate ==
    [][(call'.op = "update_sale_price" /\ call'.signer = presale.admin) =>
          IF presale.sale_stage \in {1, 2}
          THEN /\ result' = "Ok"
               /\ presale' = [presale EXCEPT
                     !.usd_price_cents_per_nlov = call'.new_usd_price_cents,
                     !.sol_price_lamports_per_nlov = call'.new_sol_price_lamports]
               /\ token_amount' = token_amount
               /\ transfer' = NoTransfer
          ELSE /\ result' = "PresaleNotActive"
               /\ Untouched]_vars

C23_Witness ==
    /\ call.op = "update_sale_price"
    /\ result = "Ok"
    /\ presale.total_sold > 0
    /\ presale.usd_price_cents_per_nlov = call.new_usd_price_cents
    /\ presale.sol_price_lamports_per_nlov = call.new_sol_price_lamports
    /\ call.new_sol_price_lamports = 182000000

\* C24: update_sale_period by the admin succeeds in stages 0, 1 and 2,
\* storing both day counts times 86400 seconds (for day counts whose
\* product fits) and changing no other field; in stage 3 it fails with
\* SaleAlreadyEnded and changes nothing.
C24_PeriodUpdate ==
    [][(call'.op = "update_sale_period" /\ call'.signer = presale.admin) =>
          IF presale.sale_stage # 3
          THEN /\ result' = "Ok"
               /\ presale' = [presale EXCEPT
                     !.private_sale_duration =
                         call'.new_private_sale_duration_days * 86400,
                     !.public_sale_duration =
                         call'.new_public_sale_duration_days * 86400]
               /\ token_amount' = token_amount
               /\ transfer' = NoTransfer
          ELSE /\ result' = "SaleAlreadyEnded"
               /\ Untouched]_vars

C24_Witness ==
    /\ call.op = "update_sale_period"
    /\ result = "Ok"
    /\ presale.sale_stage = 0
    /\ call.new_private_sale_duration_days = 1
    /\ presale.private_sale_duration = 86400
    /\ presale.public_sale_duration = 0

\* C25: finalize_presale by the admin fails with PresaleActive when the
\* stage is not 3, and with LiquidityPoolAlreadyCreated when the stage is 3
\* and pool_created is set; either way no transfer is made and nothing
\* changes.
C25_FinalizeGuards ==
    [][(call'.op = "finalize_presale" /\ call'.signer = presale.admin) =>
          /\ presale.sale_stage # 3 =>
                result' = "PresaleActive" /\ Untouched
          /\ (presale.sale_stage = 3 /\ presale.pool_created) =>
                result' = "LiquidityPoolAlreadyCreated" /\ Untouched]_vars

C25_Witness ==
    /\ call.op = "finalize_presale"
    /\ call.signer = presale.admin
    /\ result = "LiquidityPoolAlreadyCreated"
    /\ transfer = NoTransfer

\* the tokens of the instruction's presale wallet account that are unsold
UnsoldRaw(c, p) == Unreserved(c, p)

\* C26: a successful finalize_presale moves exactly
\* max(balance - total_sold, 0) from the presale wallet account to the
\* liquidity wallet (no transfer when that is 0), leaves total_sold as it was
\* and sets pool_created.
C26_FinalizeMovesUnsold ==
    [][(call'.op = "finalize_presale" /\ result' = "Ok") =>
          LET unsold == UnsoldRaw(call', presale)
              w == call'.presale_wallet
          IN /\ transfer' =
                    IF unsold > 0
                    THEN [program |-> "token", from |-> w,
                          to |-> "liquidity_wallet", amount |-> unsold]
                    ELSE NoTransfer
             /\ token_amount' =
                    [token_amount EXCEPT ![w] = @ - unsold,
                                         !["liquidity_wallet"] = @ + unsold]
             /\ presale' = [presale EXCEPT !.pool_created = TRUE]]_vars

C26_Witness ==
    /\ call.op = "finalize_presale"
    /\ result = "Ok"
    /\ presale.pool_created
    /\ transfer # NoTransfer
    /\ transfer.amount = token_amount["liquidity_wallet"]

C28_FinalizedOnce ==
    [][/\ presale.pool_created => presale'.pool_created
       /\ (~presale.pool_created /\ presale'.pool_created) =>
              /\ call'.op = "finalize_presale"
              /\ result' = "Ok"
              /\ presale.sale_stage = 3
       /\ presale'.pool_created => presale'.sale_stage = 3
       /\ (/\ call'.op = "finalize_presale"
           /\ call'.signer = presale.admin
           /\ presale.pool_created) =>
              /\ result' = "LiquidityPoolAlreadyCreated"
              /\ Untouched]_vars

C28_Witness ==
    /\ call.op = "finalize_presale"
    /\ call.signer = presale.admin
    /\ result = "LiquidityPoolAlreadyCreated"
    /\ presale.pool_created
    /\ token_amount["liquidity_wallet"] > 0

\* C29: when the transfer of the unsold tokens fails (the presale wallet
\* account given is not the one the Presale account owns), finalize_presale
\* fails with that failure, pool_created stays unset, no event is emitted,
\* and finalize_presale by the admin with the recorded wallet then succeeds
\* and moves that wallet's unsold tokens.
C29_FailedFinalizeCanBeRetried ==
    [][(/\ call'.op = "finalize_presale"
        /\ call'.signer = presale.admin
        /\ presale.sale_stage = 3
        /\ ~presale.pool_created
        /\ call'.presale_wallet # presale.presale_wallet
        /\ UnsoldRaw(call', presale) > 0) =>
          LET later == finalize_presale(
                           [presale |-> presale', token_amount |-> token_amount'],
                           presale.admin, presale.presale_wallet, token_decimals)
              unsold == UnsoldRaw([presale_wallet |-> presale.presale_wallet],
                                  presale)
          IN /\ result' = "TransferFailed"
             /\ Untouched
             /\ ~presale'.pool_created
             /\ later.result = "Ok"
             /\ later.accounts.presale.pool_created
             /\ later.accounts.token_amount["liquidity_wallet"]
                    = token_amount["liquidity_wallet"] + unsold]_vars

C29_Witness ==
    /\ call.op = "finalize_presale"
    /\ call.signer = presale.admin
    /\ result = "TransferFailed"
    /\ ~presale.pool_created
    /\ presale.sale_stage = 3
    /\ token_amount[presale.presale_wallet] > presale.total_sold

\* C30: check_presale_token_balance succeeds for every caller in every
\* stage, returns floor(max(balance - total_sold, 0) / 10^decimals) for the
\* presale wallet account it is given, 0 when total_sold exceeds the
\* balance, and changes no account (token mints whose 10^decimals fits).
C30_BalanceCheckIsPure ==
    [][call'.op = "check_presale_token_balance" =>
          /\ result' = "Ok"
          /\ ret' = Unreserved(call', presale) \div pow10(token_decimals)
          /\ presale' = presale
          /\ token_amount' = token_amount
          /\ transfer' = NoTransfer]_vars

C30_Witness ==
    /\ call.op = "check_presale_token_balance"
    /\ call.signer # presale.admin
    /\ result = "Ok"
    /\ presale.total_sold > token_amount[call.presale_wallet]
    /\ token_amount[call.presale_wallet] > 0
    /\ ret = 0

-----------------------------------------------------------------------------
\* C31: immediately after initialize the record holds the caller as admin,
\* the two supplied prices, durations of the supplied day counts times 86400
\* seconds, the supplied hardcap, the presale wallet and the merchant wallet
\* of the instruction, stage NotStarted (0), nothing sold and the pool not
\* created.
C31_InitializeRecord ==
    [][ call'.op = "initialize" =>
          /\ result' = "Ok"
          /\ presale'.admin = call'.signer
          /\ presale'.usd_price_cents_per_nlov = call'.usd_price_cents_per_nlov
          /\ presale'.sol_price_lamports_per_nlov
               = call'.sol_price_lamports_per_nlov
          /\ presale'.private_sale_duration
               = call'.private_sale_duration_days * 86400
          /\ presale'.public_sale_duration
               = call'.public_sale_duration_days * 86400
          /\ presale'.hardcap_tokens = call'.hardcap_tokens
          /\ presale'.presale_wallet = "presale_wallet"
          /\ presale'.merchant_wallet = "merchant_wallet"
          /\ presale'.sale_stage = 0
          /\ presale'.total_sold = 0
          /\ presale'.pool_created = FALSE ]_vars

C31_Witness ==
    /\ call.op = "initialize"
    /\ result = "Ok"
    /\ presale.admin = "admin"
    /\ presale.private_sale_duration = 86400
    /\ presale.public_sale_duration = 0
    /\ presale.hardcap_tokens = 1000000
    /\ presale.sale_stage = 0

-----------------------------------------------------------------------------
\* C32: once the record is initialized, no instruction changes its admin,
\* its hardcap, its presale wallet address or its merchant wallet address.
C32_FixedAtInitialize ==
    [][ initialized =>
          /\ presale'.admin = presale.admin
          /\ presale'.hardcap_tokens = presale.hardcap_tokens
          /\ presale'.presale_wallet = presale.presale_wallet
          /\ presale'.merchant_wallet = presale.merchant_wallet ]_vars

\* the sale has run to its end, with a price update, a purchase and the
\* finalization behind it, and the four fields are those of initialize
C32_Witness ==
    /\ call.op = "finalize_presale"
    /\ result = "Ok"
    /\ presale.pool_created
    /\ presale.total_sold > 0
    /\ presale.admin = "admin"
    /\ presale.hardcap_tokens = 1000000
    /\ presale.presale_wallet = "presale_wallet"
    /\ presale.merchant_wallet = "merchant_wallet"

-----------------------------------------------------------------------------
-----------------------------------------------------------------------------
\* The whole tokens a purchase buys (None when there is no such number), and
\* whether the products the handler forms from them fit in a u64, computed
\* exactly.
ExactFits(x, d) ==
    checked_pow10(d) # None /\ checked_mul(x, checked_pow10(d)) # None

WholeTokens(c, p) ==
    IF c.op = "buy_tokens"
    THEN checked_div(c.lamports_sent, p.sol_price_lamports_per_nlov)
    ELSE IF checked_mul(c.stable_coin_amount_user_units, 100) = None THEN None
    ELSE checked_div(c.stable_coin_amount_user_units * 100,
                     p.usd_price_cents_per_nlov)

ProductsFit(c, p) ==
    /\ WholeTokens(c, p) # None => ExactFits(WholeTokens(c, p), token_decimals)
    /\ c.op = "buy_tokens_by_stable_coin" =>
          /\ checked_mul(c.stable_coin_amount_user_units, 100) # None
          /\ ExactFits(c.stable_coin_amount_user_units, stable_decimals)

\* C34: when tokens * 10^token_decimals (either instruction), U * 100 or
\* U * 10^stable_decimals (stable coin purchase) does not fit in a u64, the
\* purchase fails and total_sold is unchanged; a purchase that succeeds
\* adds exactly tokens * 10^token_decimals, never that amount wrapped.
C34_RawAmountsNeverWrap ==
    [][ call'.op \in PurchaseOps =>
          /\ ~ProductsFit(call', presale) =>
                (result' # "Ok" /\ presale'.total_sold = presale.total_sold)
          /\ result' = "Ok" =>
                presale'.total_sold = presale.total_sold
                    + WholeTokens(call', presale) * checked_pow10(token_decimals)
      ]_vars

-----------------------------------------------------------------------------
\* The raw tokens of a purchase as the handler computes them, and whether
\* the handler gets as far as its hardcap check.
RawAsComputed(c, p) == ToRaw(WholeTokens(c, p), token_decimals)

ReachesHardcapCheck(c, p) ==
    /\ p.sale_stage \in {1, 2}
    /\ WholeTokens(c, p) # None
    /\ RawAsComputed(c, p) # None
    /\ IF c.op = "buy_tokens"
       THEN WholeTokens(c, p) >= 1
       ELSE /\ c.stable_coin_mint \in {USDC_ADDRESS, USDT_ADDRESS}
            /\ c.stable_coin_amount_user_units >= 1
            /\ ToRaw(c.stable_coin_amount_user_units, stable_decimals) # None

\* C35: a purchase whose total_sold + tokens_raw exceeds U64_MAX is rejected
\* by the hardcap check or the inventory check, before any payment, whatever
\* the hardcap (U64_MAX included); so a purchase that reaches the hardcap
\* check never aborts afterwards: the checked addition that updates
\* total_sold cannot fail once the payment is made.
C35_NoWraparoundPastHardcap ==
    [][ (call'.op \in PurchaseOps /\ ReachesHardcapCheck(call', presale)) =>
          /\ result' # "Panic"
          /\ checked_add(presale.total_sold, RawAsComputed(call', presale)) = None
                => /\ result' \in {"HardcapReached", "InsufficientTokens"}
                   /\ Untouched
          /\ (/\ checked_add(presale.total_sold, RawAsComputed(call', presale)) = None
              /\ presale.hardcap_tokens < U64_MAX)
                => result' = "HardcapReached" ]_vars

\* with a hardcap of U64_MAX, a purchase that would take total_sold past
\* U64_MAX is stopped by the inventory check
C35_Witness ==
    /\ call.op = "buy_tokens"
    /\ result = "InsufficientTokens"
    /\ presale.hardcap_tokens = U64_MAX
    /\ presale.total_sold > 0
    /\ token_amount[call.presale_wallet] = U64_MAX
    /\ checked_add(presale.total_sold, RawAsComputed(call, presale)) = None
    /\ transfer = NoTransfer

-----------------------------------------------------------------------------
\* C36: purchases are applied one after the other, each against the
\* total_sold the purchases before it left: a purchase that succeeds adds
\* exactly its tokens_raw, a purchase that fails and every other step add
\* nothing, so total_sold is the sum of tokens_raw over the purchases that
\* succeeded; and a purchase succeeds only if, with all that was sold before
\* it, it fits under the hardcap and in what the wallet account it names
\* holds beyond the tokens already sold, so two purchases that fit each
\* alone but not together never both succeed.
C36_PurchasesSerialized ==
    [][ /\ (call'.op \in PurchaseOps /\ result' = "Ok") =>
              /\ presale'.total_sold
                    = presale.total_sold + TokensRaw(call', presale)
              /\ presale'.total_sold <= presale.hardcap_tokens
              /\ TokensRaw(call', presale) <= Unreserved(call', presale)
        /\ ~(call'.op \in PurchaseOps /\ result' = "Ok") =>
              presale'.total_sold = presale.total_sold ]_vars

\* a second purchase that would fit under the hardcap alone, as the first
\* one did, is turned down because the two do not fit together
C36_Witness ==
    /\ call.op \in PurchaseOps
    /\ result = "HardcapReached"
    /\ purchases = 1
    /\ presale.total_sold > 0
    /\ TokensRaw(call, presale) <= presale.hardcap_tokens
    /\ TokensRaw(call, presale) <= token_amount[call.presale_wallet]
    /\ TokensRaw(call, presale) > presale.hardcap_tokens - presale.total_sold

-----------------------------------------------------------------------------
\* C37: total_sold never decreases, and only a successful purchase changes
\* it: set_stage, update_sale_price, update_sale_period,
\* check_presale_token_balance and finalize_presale, successful or failed,
\* leave it as it was.
C37_TotalSoldOnlyGrowsByPurchase ==
    [][ /\ presale'.total_sold >= presale.total_sold
        /\ presale'.total_sold # presale.total_sold =>
              (call'.op \in PurchaseOps /\ result' = "Ok")
        /\ call'.op \in {"set_stage", "update_sale_price",
                         "update_sale_period", "check_presale_token_balance",
                         "finalize_presale"} =>
              presale'.total_sold = presale.total_sold ]_vars

\* the admin opens the public sale after a purchase of the private sale
C37_Witness ==
    /\ call.op = "set_stage"
    /\ result = "Ok"
    /\ presale.sale_stage = 2
    /\ presale.total_sold > 0

-----------------------------------------------------------------------------
\* C38: once the stage is 3 (Ended) the record is frozen but for the pool
\* flag: the stage, total_sold, both prices, both durations and presale_start
\* keep their values, every purchase, update_sale_price, update_sale_period
\* and set_stage fails, and pool_created can only go from unset to set.
C38_EndedIsFrozen ==
    [][ presale.sale_stage = 3 =>
          /\ presale' = [presale EXCEPT !.pool_created = presale'.pool_created]
          /\ presale.pool_created => presale'.pool_created
          /\ call'.op \in PurchaseOps \cup {"update_sale_price",
                                            "update_sale_period", "set_stage"}
                => (result' # "Ok" /\ Untouched) ]_vars

\* the admin tries to change the durations of a finalized sale
C38_Witness ==
    /\ call.op = "update_sale_period"
    /\ call.signer = presale.admin
    /\ result = "SaleAlreadyEnded"
    /\ presale.sale_stage = 3
    /\ presale.pool_created
    /\ presale.total_sold > 0

-----------------------------------------------------------------------------
\* C39: in every reachable state of an initialized sale, total_sold is at
\* most the balance of the presale wallet recorded in the Presale account
\* (that balance is lowered by finalize_presale alone in this model).
C39_SoldBackedByRecordedWallet ==
    initialized => presale.total_sold <= token_amount[presale.presale_wallet]

-----------------------------------------------------------------------------
\* C40: with the clock advancing and the admin submitting set_stage and
\* finalize_presale again and again, an initialized sale comes to stage 3
\* (Ended) with pool_created set, and stays there for ever.
C40_SaleEndsFinalized ==
    initialized ~> [](presale.sale_stage = 3 /\ presale.pool_created)

\* the sale was finalized after the public sale ran its day and tokens were
\* sold
C40_Witness ==
    /\ call.op = "finalize_presale"
    /\ result = "Ok"
    /\ presale.sale_stage = 3
    /\ presale.pool_created
    /\ presale.total_sold > 0
    /\ now >= presale.presale_start + presale.private_sale_duration
                + presale.public_sale_duration
    /\ now > presale.presale_start

====
